---- MODULE Spec2Model ----
(***************************************************************************)
(* train_model and validate of GPU-Image-Classification.ipynb as a state   *)
(* machine.  One action per statement group of the two functions; the      *)
(* program counter pc names the statement that runs next.                  *)
(*                                                                         *)
(* Numeric tensors are abstracted as follows.                              *)
(*   - The loss of a training batch is the token <<epoch, idx>> of the     *)
(*     batch it was computed from; a gradient is the set of loss tokens    *)
(*     that backward() has accumulated into .grad (the empty set is the    *)
(*     zero gradient); the parameters are the sequence of gradients that   *)
(*     optimizer.step() has applied to the initial weights.                *)
(*   - On the held-out set every sample has an integer per-sample loss and *)
(*     a flag saying whether its top-1 prediction is correct; the          *)
(*     criterion of a batch is the exact rational mean of its per-sample   *)
(*     losses.  Rationals are pairs <<numerator, denominator>>.            *)
(***************************************************************************)
EXTENDS Integers, Sequences, FiniteSets, TLC

\* Bounds of the explored inputs.
MaxEpochs == 3
MaxFreq == 2
MaxTrain == 3
MaxTest == 2
MaxBatch == 2
MaxLoss == 1

VARIABLES
    \* inputs of train_model
    N_epochs, print_freq, batch_size, train_size, test_size,
    test_loss,      \* per-sample loss of each held-out sample
    test_correct,   \* whether the top-1 prediction of each held-out sample is right
    \* model and optimizer
    mode, params, grad,
    \* locals of train_model
    pc, epoch, idx, labels, preds, loss, curr_loss, N,
    acc_dict, loss_dict, val_loss, val_acc,
    \* locals of validate
    v_idx, v_labels, v_loss, v_N, N_correct,
    \* outcome
    err, ret, printed,
    \* history: operations of the current batch, epochs validate was called for,
    \* number of forward passes
    batch_ops, val_epochs, n_forward

inputs == <<N_epochs, print_freq, batch_size, train_size, test_size, test_loss, test_correct>>
modelvars == <<mode, params, grad>>
trainlocals == <<epoch, idx, labels, preds, loss, curr_loss, N>>
records == <<acc_dict, loss_dict, val_loss, val_acc>>
vallocals == <<v_idx, v_labels, v_loss, v_N, N_correct>>
outcome == <<err, ret, printed>>
history == <<batch_ops, val_epochs, n_forward>>
vars == <<inputs, modelvars, pc, trainlocals, records, vallocals, outcome, history>>

None == <<>>

------------------------------------------------------------------------------
\* Exact rational arithmetic on pairs <<numerator, denominator>>.

RatAdd(a, b) == <<a[1] * b[2] + b[1] * a[2], a[2] * b[2]>>
RatDivInt(a, n) == <<a[1], a[2] * n>>
RatEq(a, b) == a[1] * b[2] = b[1] * a[2]
RatLeq(a, b) == a[1] * b[2] <= b[1] * a[2]

RECURSIVE SumLoss(_)
SumLoss(samples) ==
    IF samples = <<>> THEN 0
    ELSE test_loss[Head(samples)] + SumLoss(Tail(samples))

RECURSIVE CountCorrect(_)
CountCorrect(samples) ==
    IF samples = <<>> THEN 0
    ELSE (IF test_correct[Head(samples)] THEN 1 ELSE 0) + CountCorrect(Tail(samples))


\* Variant of HasBatch: a loader that drops a shorter last batch.
MutHasBatch(size, B, i) == (i + 1) * B <= size

\* DataLoader(data, batch_size=B): sequential order, no shuffling, the last
\* batch kept even when shorter.  Batch i (from 0) of a data set of `size` samples.
HasBatch(size, B, i) == i * B < size
Batch(size, B, i) ==
    [j \in 1 .. (IF (i + 1) * B <= size THEN B ELSE size - i * B) |-> i * B + j]

\* nn.CrossEntropyLoss() with the default reduction: the mean over the batch.
criterion(samples) == <<SumLoss(samples), Len(samples)>>


\* Variant of CadenceTest: the final epoch is not forced onto the cadence.
MutCadenceTest(e) == e % print_freq = 0

\* epoch % print_freq == 0 or epoch == N_epochs-1   (print_freq # 0)
CadenceTest(e) == (e % print_freq = 0) \/ (e = N_epochs - 1)

------------------------------------------------------------------------------
Init ==
    /\ N_epochs \in 0 .. MaxEpochs
    /\ print_freq \in 0 .. MaxFreq
    /\ batch_size \in 1 .. MaxBatch
    /\ train_size \in 0 .. MaxTrain
    /\ test_size \in 0 .. MaxTest
    /\ test_loss \in [1 .. test_size -> 0 .. MaxLoss]
    /\ test_correct \in [1 .. test_size -> BOOLEAN]
    /\ mode = "training"
    /\ params = <<>>
    /\ grad = {}
    /\ pc = "start"
    /\ epoch = 0 /\ idx = 0 /\ labels = None /\ preds = None /\ loss = None
    /\ curr_loss = <<>> /\ N = 0
    /\ acc_dict = <<>> /\ loss_dict = <<>> /\ val_loss = None /\ val_acc = None
    /\ v_idx = 0 /\ v_labels = None /\ v_loss = <<0, 1>> /\ v_N = 0 /\ N_correct = 0
    /\ err = "none" /\ ret = None /\ printed = <<>>
    /\ batch_ops = <<>> /\ val_epochs = <<>> /\ n_forward = 0

\* ---- train_model ----

\* model.train(); model.to(device); optimizer = Adam(...); acc_dict, loss_dict = {}, {}
Setup ==
    /\ pc = "start"
    /\ mode' = "training"
    /\ acc_dict' = <<>> /\ loss_dict' = <<>>
    /\ epoch' = 0
    /\ pc' = "epoch_head"
    /\ UNCHANGED <<inputs, params, grad, idx, labels, preds, loss, curr_loss, N,
                   val_loss, val_acc, vallocals, outcome, history>>


\* Variant of EpochHead: the epoch loop runs once more than configured.
MutEpochHead ==
    /\ pc = "epoch_head"
    /\ epoch <= N_epochs
    /\ curr_loss' = <<>> /\ N' = 0 /\ idx' = 0
    /\ pc' = "batch_head"
    /\ UNCHANGED <<inputs, modelvars, epoch, labels, preds, loss, records, vallocals,
                   outcome, history>>

\* for epoch in range(N_epochs): curr_loss = 0; N = 0
EpochHead ==
    /\ pc = "epoch_head"
    /\ epoch < N_epochs
    /\ curr_loss' = <<>> /\ N' = 0 /\ idx' = 0
    /\ pc' = "batch_head"
    /\ UNCHANGED <<inputs, modelvars, epoch, labels, preds, loss, records, vallocals,
                   outcome, history>>

\* return model, acc_dict, loss_dict
Return ==
    /\ pc = "epoch_head"
    /\ ~(epoch < N_epochs)
    /\ ret' = <<params, acc_dict, loss_dict>>
    /\ pc' = "returned"
    /\ UNCHANGED <<inputs, modelvars, trainlocals, records, vallocals, err, printed, history>>

\* for idx, (images, labels) in enumerate(train_dl): the next batch
NextBatch ==
    /\ pc = "batch_head"
    /\ HasBatch(train_size, batch_size, idx)
    /\ labels' = Batch(train_size, batch_size, idx)
    /\ batch_ops' = <<>>
    /\ pc' = "forward"
    /\ UNCHANGED <<inputs, modelvars, epoch, idx, preds, loss, curr_loss, N, records,
                   vallocals, outcome, val_epochs, n_forward>>

\* the training iterator is exhausted
BatchLoopExit ==
    /\ pc = "batch_head"
    /\ ~HasBatch(train_size, batch_size, idx)
    /\ pc' = "cadence"
    /\ UNCHANGED <<inputs, modelvars, trainlocals, records, vallocals, outcome, history>>

\* preds = model(images)
Forward ==
    /\ pc = "forward"
    /\ preds' = <<epoch, idx>>
    /\ n_forward' = n_forward + 1
    /\ batch_ops' = Append(batch_ops, "forward")
    /\ pc' = "loss"
    /\ UNCHANGED <<inputs, modelvars, epoch, idx, labels, loss, curr_loss, N, records,
                   vallocals, outcome, val_epochs>>

\* loss = criterion(preds, labels)
ComputeLoss ==
    /\ pc = "loss"
    /\ loss' = preds
    /\ batch_ops' = Append(batch_ops, "loss")
    /\ pc' = "accumulate"
    /\ UNCHANGED <<inputs, modelvars, epoch, idx, labels, preds, curr_loss, N, records,
                   vallocals, outcome, val_epochs, n_forward>>

\* curr_loss += loss.item(); N += len(labels)
Accumulate ==
    /\ pc = "accumulate"
    /\ curr_loss' = Append(curr_loss, loss)
    /\ N' = N + Len(labels)
    /\ pc' = "zero_grad"
    /\ UNCHANGED <<inputs, modelvars, epoch, idx, labels, preds, loss, records,
                   vallocals, outcome, history>>


\* Variant of ZeroGrad: the gradients are not cleared.
MutZeroGrad ==
    /\ pc = "zero_grad"
    /\ batch_ops' = Append(batch_ops, "zero_grad")
    /\ pc' = "backward"
    /\ UNCHANGED <<inputs, modelvars, trainlocals, records, vallocals, outcome,
                   val_epochs, n_forward>>

\* optimizer.zero_grad()
ZeroGrad ==
    /\ pc = "zero_grad"
    /\ grad' = {}
    /\ batch_ops' = Append(batch_ops, "zero_grad")
    /\ pc' = "backward"
    /\ UNCHANGED <<inputs, mode, params, trainlocals, records, vallocals, outcome,
                   val_epochs, n_forward>>

\* loss.backward(): the gradient of loss is added to .grad
Backward ==
    /\ pc = "backward"
    /\ grad' = grad \cup {loss}
    /\ batch_ops' = Append(batch_ops, "backward")
    /\ pc' = "step"
    /\ UNCHANGED <<inputs, mode, params, trainlocals, records, vallocals, outcome,
                   val_epochs, n_forward>>

\* optimizer.step(), then the next iteration of enumerate(train_dl)
OptimizerStep ==
    /\ pc = "step"
    /\ params' = Append(params, grad)
    /\ batch_ops' = Append(batch_ops, "step")
    /\ idx' = idx + 1
    /\ pc' = "batch_head"
    /\ UNCHANGED <<inputs, mode, grad, epoch, labels, preds, loss, curr_loss, N, records,
                   vallocals, outcome, val_epochs, n_forward>>


\* Variant of CadenceDivByZero: a zero cadence is taken as "never validate".
MutCadenceDivByZero ==
    /\ pc = "cadence"
    /\ print_freq = 0
    /\ epoch' = epoch + 1
    /\ pc' = "epoch_head"
    /\ UNCHANGED <<inputs, modelvars, idx, labels, preds, loss, curr_loss, N, records,
                   vallocals, outcome, history>>

\* if epoch % print_freq == 0 or epoch==N_epochs-1: with print_freq = 0
CadenceDivByZero ==
    /\ pc = "cadence"
    /\ print_freq = 0
    /\ err' = "ZeroDivisionError:244"
    /\ pc' = "aborted"
    /\ UNCHANGED <<inputs, modelvars, trainlocals, records, vallocals, ret, printed, history>>

\* the test holds: val_loss, val_acc = validate(test_dl, model, criterion)
CadenceValidate ==
    /\ pc = "cadence"
    /\ print_freq # 0
    /\ CadenceTest(epoch)
    /\ val_epochs' = Append(val_epochs, epoch)
    /\ pc' = "v_entry"
    /\ UNCHANGED <<inputs, modelvars, trainlocals, records, vallocals, outcome,
                   batch_ops, n_forward>>

\* the test fails: on to the next epoch
CadenceSkip ==
    /\ pc = "cadence"
    /\ print_freq # 0
    /\ ~CadenceTest(epoch)
    /\ epoch' = epoch + 1
    /\ pc' = "epoch_head"
    /\ UNCHANGED <<inputs, modelvars, idx, labels, preds, loss, curr_loss, N, records,
                   vallocals, outcome, history>>

\* acc_dict[epoch] = val_acc; loss_dict[epoch] = val_loss
Record ==
    /\ pc = "record"
    /\ acc_dict' = (epoch :> val_acc) @@ acc_dict
    /\ loss_dict' = (epoch :> val_loss) @@ loss_dict
    /\ pc' = "print"
    /\ UNCHANGED <<inputs, modelvars, trainlocals, val_loss, val_acc, vallocals,
                   outcome, history>>

\* print(f'... Train Loss = {curr_loss / N} ...'), then the next epoch
PrintLine ==
    /\ pc = "print"
    /\ N # 0
    /\ printed' = Append(printed, <<epoch, <<curr_loss, N>>, val_loss, val_acc>>)
    /\ epoch' = epoch + 1
    /\ pc' = "epoch_head"
    /\ UNCHANGED <<inputs, modelvars, idx, labels, preds, loss, curr_loss, N, records,
                   vallocals, err, ret, history>>

\* curr_loss / N with N = 0
PrintDivByZero ==
    /\ pc = "print"
    /\ N = 0
    /\ err' = "ZeroDivisionError:250"
    /\ pc' = "aborted"
    /\ UNCHANGED <<inputs, modelvars, trainlocals, records, vallocals, ret, printed, history>>

\* ---- validate ----

\* model.eval(); loss = 0; N = 0; N_correct = 0
ValEntry ==
    /\ pc = "v_entry"
    /\ mode' = "evaluation"
    /\ v_loss' = <<0, 1>> /\ v_N' = 0 /\ N_correct' = 0 /\ v_idx' = 0
    /\ v_labels' = None
    /\ pc' = "v_batch_head"
    /\ UNCHANGED <<inputs, params, grad, trainlocals, records, outcome, history>>

\* for idx, (images, labels) in enumerate(test_dl): preds = model(images)
ValForward ==
    /\ pc = "v_batch_head"
    /\ HasBatch(test_size, batch_size, v_idx)
    /\ v_labels' = Batch(test_size, batch_size, v_idx)
    /\ n_forward' = n_forward + 1
    /\ pc' = "v_accumulate"
    /\ UNCHANGED <<inputs, modelvars, trainlocals, records, v_idx, v_loss, v_N, N_correct,
                   outcome, batch_ops, val_epochs>>


\* Variant of ValAccumulate: the validation batch also updates the weights.
MutValAccumulate ==
    /\ pc = "v_accumulate"
    /\ N_correct' = N_correct + CountCorrect(v_labels)
    /\ v_loss' = RatAdd(v_loss, criterion(v_labels))
    /\ v_N' = v_N + Len(v_labels)
    /\ v_idx' = v_idx + 1
    /\ params' = Append(params, grad)
    /\ pc' = "v_batch_head"
    /\ UNCHANGED <<inputs, mode, grad, trainlocals, records, v_labels, outcome, history>>

\* N_correct += (labels==preds_nonprob).sum().item()
\* loss += criterion(preds, labels); N += len(labels)
ValAccumulate ==
    /\ pc = "v_accumulate"
    /\ N_correct' = N_correct + CountCorrect(v_labels)
    /\ v_loss' = RatAdd(v_loss, criterion(v_labels))
    /\ v_N' = v_N + Len(v_labels)
    /\ v_idx' = v_idx + 1
    /\ pc' = "v_batch_head"
    /\ UNCHANGED <<inputs, modelvars, trainlocals, records, v_labels, outcome, history>>

\* return loss / N, N_correct/N
ValReturn ==
    /\ pc = "v_batch_head"
    /\ ~HasBatch(test_size, batch_size, v_idx)
    /\ v_N # 0
    /\ val_loss' = RatDivInt(v_loss, v_N)
    /\ val_acc' = <<N_correct, v_N>>
    /\ v_idx' = 0 /\ v_labels' = None /\ v_loss' = <<0, 1>> /\ v_N' = 0 /\ N_correct' = 0
    /\ pc' = "record"
    /\ UNCHANGED <<inputs, modelvars, trainlocals, acc_dict, loss_dict, outcome, history>>

\* loss / N with N = 0
ValDivByZero ==
    /\ pc = "v_batch_head"
    /\ ~HasBatch(test_size, batch_size, v_idx)
    /\ v_N = 0
    /\ err' = "ZeroDivisionError:277"
    /\ pc' = "aborted"
    /\ UNCHANGED <<inputs, modelvars, trainlocals, records, vallocals, ret, printed, history>>

\* ---- failures ----

\* The statements that call into the numeric library and can raise at run time
\* (shape mismatch, out of memory).  Nothing in either function catches.
FalliblePcs == {"forward", "loss", "backward", "step", "v_batch_head", "v_accumulate"}


\* Variant of StepFails: the failure of a training batch is caught and the loop
\* goes on with the next batch.
MutStepFails ==
    /\ pc \in FalliblePcs
    /\ pc = "v_batch_head" => HasBatch(test_size, batch_size, v_idx)
    /\ err' = "RuntimeError"
    /\ pc' = IF pc \in {"forward", "loss", "backward", "step"} THEN "batch_head" ELSE "aborted"
    /\ idx' = IF pc \in {"forward", "loss", "backward", "step"} THEN idx + 1 ELSE idx
    /\ UNCHANGED <<inputs, modelvars, epoch, labels, preds, loss, curr_loss, N, records,
                   vallocals, ret, printed, history>>

StepFails ==
    /\ pc \in FalliblePcs
    /\ pc = "v_batch_head" => HasBatch(test_size, batch_size, v_idx)
    /\ err' = "RuntimeError"
    /\ pc' = "aborted"
    /\ UNCHANGED <<inputs, modelvars, trainlocals, records, vallocals, ret, printed, history>>

Next ==
    \/ Setup
    \/ EpochHead
    \/ Return
    \/ NextBatch
    \/ BatchLoopExit
    \/ Forward
    \/ ComputeLoss
    \/ Accumulate
    \/ ZeroGrad
    \/ Backward
    \/ OptimizerStep
    \/ CadenceDivByZero
    \/ CadenceValidate
    \/ CadenceSkip
    \/ Record
    \/ PrintLine
    \/ PrintDivByZero
    \/ ValEntry
    \/ ValForward
    \/ ValAccumulate
    \/ ValReturn
    \/ ValDivByZero
    \/ StepFails

Spec == Init /\ [][Next]_vars

\* One thread of control that runs until it returns or raises.
FairSpec == Spec /\ WF_vars(Next)

------------------------------------------------------------------------------
\* Definitions shared by the properties.

TrainBatchPcs == {"forward", "loss", "accumulate", "zero_grad", "backward", "step"}
ValidatePcs == {"v_entry", "v_batch_head", "v_accumulate"}
BatchOrder == <<"forward", "loss", "zero_grad", "backward", "step">>
CeilDiv(a, b) == (a + b - 1) \div b
SeqRange(s) == {s[i] : i \in 1 .. Len(s)}
\* the epochs among 0 .. n-1 that are on the cadence or are the final epoch
OnCadence(n) == {k \in 0 .. n - 1 : k % print_freq = 0 \/ k = N_epochs - 1}
AllTestSamples == [j \in 1 .. test_size |-> j]

\* C1: during the batch loop of every epoch the model is in training mode.
C1_TrainingModeInBatchLoop ==
    (N_epochs >= 1 /\ print_freq >= 1) =>
        (pc \in TrainBatchPcs => mode = "training")

\* C2: the loss validate returns is the sum of the per-sample losses of all
\* held-out samples divided by the number of held-out samples.
C2_ValidateMeanPerSampleLoss ==
    (pc = "record" /\ test_size >= 1) =>
        RatEq(val_loss, <<SumLoss(AllTestSamples), test_size>>)

\* The key sets of the two records and the epochs validate was called for.
C3_KeysInv ==
    print_freq >= 1 =>
        /\ DOMAIN acc_dict = DOMAIN loss_dict
        /\ DOMAIN acc_dict \cap (0 .. epoch - 1) = OnCadence(epoch)
        /\ DOMAIN acc_dict \subseteq OnCadence(epoch + 1)
        /\ pc \in {"epoch_head", "returned"} => DOMAIN acc_dict = OnCadence(epoch)
        /\ pc = "print" => DOMAIN acc_dict = OnCadence(epoch + 1)
        /\ SeqRange(val_epochs) \cap (0 .. epoch - 1) = OnCadence(epoch)
        /\ SeqRange(val_epochs) \subseteq OnCadence(epoch + 1)
        /\ Len(val_epochs) = Cardinality(SeqRange(val_epochs))
        /\ DOMAIN acc_dict \subseteq SeqRange(val_epochs)
C3_AppendOnly ==
    /\ \A k \in DOMAIN acc_dict : k \in DOMAIN acc_dict' /\ acc_dict'[k] = acc_dict[k]
    /\ \A k \in DOMAIN loss_dict : k \in DOMAIN loss_dict' /\ loss_dict'[k] = loss_dict[k]
C4_GradientOfCurrentBatchOnly ==
    /\ Len(batch_ops) <= Len(BatchOrder)
    /\ batch_ops = SubSeq(BatchOrder, 1, Len(batch_ops))
    /\ pc = "backward" => grad = {} /\ batch_ops = SubSeq(BatchOrder, 1, 3)
    /\ pc = "step" => grad = {<<epoch, idx>>} /\ loss = <<epoch, idx>>
    /\ \A i \in 1 .. Len(params) : Cardinality(params[i]) = 1
    /\ \A i, j \in 1 .. Len(params) : i # j => params[i] \cap params[j] = {}
C4_Witness ==
    /\ pc = "step" /\ epoch >= 1 /\ idx >= 1 /\ Len(params) >= 3
    /\ grad = {<<epoch, idx>>}

\* What a single step may change of the parameters and gradients.
C5_Frame ==
    /\ params' # params => (pc = "step" /\ pc' = "batch_head")
    /\ (pc \in ValidatePcs \/ pc' \in ValidatePcs \/ pc \in {"record", "print"}) =>
            (params' = params /\ grad' = grad)
\* C5: only the optimizer step of a training batch changes the parameters; no
\* step of validate changes the parameters or the gradients.
C5_OnlyOptimizerStepMutatesParams == [][C5_Frame]_vars
C5_Witness ==
    /\ pc = "record" /\ Len(params) >= 2 /\ epoch >= 1 /\ test_size >= 2

\* What the failing step, and any step after it, leaves alone.
C6_AbortFrame ==
    err' # "none" =>
        /\ pc' = "aborted" /\ ret' = None
        /\ params' = params /\ grad' = grad
        /\ acc_dict' = acc_dict /\ loss_dict' = loss_dict
        /\ printed' = printed /\ val_epochs' = val_epochs /\ n_forward' = n_forward
C6_AbortInv ==
    /\ err # "none" <=> pc = "aborted"
    /\ pc = "aborted" => ret = None
    /\ ret # None <=> pc = "returned"
\* C6: a failing step aborts the run at that step: the step itself and everything
\* after it change neither the parameters nor the records nor the printed lines,
\* validate is not called again, and train_model never returns.
C6_FailureAbortsRun == []C6_AbortInv /\ [][C6_AbortFrame]_vars
C6_Witness ==
    /\ pc = "aborted" /\ err = "RuntimeError"
    /\ Len(params) >= 1 /\ Len(printed) >= 1 /\ epoch >= 1 /\ epoch < N_epochs
    /\ ret = None

\* C7: with N_epochs = 0 there is no forward pass, no optimizer step and no call
\* of validate, and the return value is the unchanged model with two empty records.
C7_ZeroEpochs ==
    N_epochs = 0 =>
        /\ n_forward = 0 /\ params = <<>> /\ grad = {} /\ mode = "training"
        /\ val_epochs = <<>> /\ printed = <<>> /\ err = "none"
        /\ pc \in {"start", "epoch_head", "returned"}
        /\ pc = "returned" => ret = << <<>>, <<>>, <<>> >>
C7_Witness ==
    /\ N_epochs = 0 /\ pc = "returned" /\ train_size >= 1 /\ test_size >= 1
    /\ ret = << <<>>, <<>>, <<>> >>

\* Non-empty data sets and a non-zero cadence; the counters of a run under them.
C8_Pre == print_freq >= 1 /\ train_size >= 1 /\ test_size >= 1
C8_CountsInv ==
    C8_Pre =>
        /\ pc = "returned" =>
                /\ Len(params) = N_epochs * CeilDiv(train_size, batch_size)
                /\ epoch = N_epochs
        /\ pc \in {"cadence", "v_entry", "record", "print"} =>
                /\ N = train_size
                /\ idx = CeilDiv(train_size, batch_size)
                /\ Len(params) = (epoch + 1) * CeilDiv(train_size, batch_size)
        /\ pc \in TrainBatchPcs =>
                /\ Len(labels) >= 1 /\ Len(labels) <= batch_size
                /\ Len(labels) < batch_size => idx = CeilDiv(train_size, batch_size) - 1
                /\ \A j \in 1 .. Len(labels) : labels[j] = idx * batch_size + j
                /\ labels[Len(labels)] <= train_size
        /\ pc \in {"forward", "loss", "accumulate"} => N = idx * batch_size
        /\ pc \in {"zero_grad", "backward", "step"} => N = labels[Len(labels)]
\* C8: with print_freq >= 1 and non-empty training and held-out sets, a run in
\* which no step fails returns; by then N_epochs * ceil(S/B) optimizer steps were
\* made; at each epoch boundary N = S; every batch has B samples except possibly
\* a shorter last one, and the batches of an epoch are the samples 1 .. S in order.
C8_TerminatesWithAllSteps ==
    /\ []C8_CountsInv
    /\ C8_Pre => <>(pc = "returned" \/ err = "RuntimeError")
C8_Witness ==
    /\ C8_Pre /\ pc = "returned" /\ N_epochs >= 2
    /\ train_size > batch_size /\ train_size % batch_size # 0
    /\ Len(params) = N_epochs * CeilDiv(train_size, batch_size)

\* C9: every call of validate yields an accuracy in [0,1] and a loss >= 0, never
\* an error, whatever the size of the held-out set.
C9_ValidateResultsWellDefined ==
    /\ err # "ZeroDivisionError:277"
    /\ N_correct <= v_N
    /\ pc = "record" =>
            /\ RatLeq(<<0, 1>>, val_acc) /\ RatLeq(val_acc, <<1, 1>>)
            /\ RatLeq(<<0, 1>>, val_loss)

\* The two runs that end in a division by zero.
C10_ZeroFreq ==
    (print_freq = 0 /\ N_epochs >= 1) =>
        /\ pc \notin ({"returned", "record", "print"} \cup ValidatePcs)
        /\ epoch = 0 /\ val_epochs = <<>> /\ ret = None /\ printed = <<>>
        /\ acc_dict = <<>> /\ loss_dict = <<>>
        /\ err \in {"none", "RuntimeError", "ZeroDivisionError:244"}
        /\ (pc = "cadence" \/ err = "ZeroDivisionError:244") =>
                /\ Len(params) = CeilDiv(train_size, batch_size)
                /\ idx = CeilDiv(train_size, batch_size)
C10_EmptyTrain ==
    (train_size = 0 /\ print_freq >= 1 /\ N_epochs >= 1 /\ test_size >= 1) =>
        /\ pc # "returned" /\ epoch = 0 /\ params = <<>> /\ ret = None /\ printed = <<>>
        /\ err \in {"none", "RuntimeError", "ZeroDivisionError:250"}
        /\ pc \in {"print"} \/ err = "ZeroDivisionError:250" =>
                /\ val_epochs = <<0>>
                /\ DOMAIN acc_dict = {0} /\ DOMAIN loss_dict = {0}
                /\ acc_dict[0] = val_acc /\ loss_dict[0] = val_loss
                /\ val_acc # None /\ val_loss # None
====
